---- MODULE Spec2Model ----
(***************************************************************************)
(* Model of the simulation and risk-analytics engine of the portfolio      *)
(* simulator: the RiskMetrics value object, the strategy registry          *)
(* (simulator_factory), the PortfolioProcessor (weights normalisation,     *)
(* portfolio aggregation, risk-metric computation), the three path         *)
(* generators (Monte Carlo, historical bootstrap, jump diffusion) over the *)
(* process-wide random generator, the StressTester's scenario loop, and    *)
(* the date validation and price download of fetch_portfolio_data.         *)
(*                                                                         *)
(* Python floats are modelled as exact extended rationals [n, d]:          *)
(*   d > 0          the finite value n/d, in lowest terms                  *)
(*   d = 0, n = 1   +inf      d = 0, n = -1   -inf      d = 0, n = 0  nan  *)
(* so that numpy's division by zero (which warns and does not raise)       *)
(* yields inf/nan exactly as IEEE arithmetic does.  The mean of the CVaR   *)
(* tail is rounded as a float computation (Fl), at a scaled-down width.    *)
(***************************************************************************)
EXTENDS Integers, Sequences, FiniteSets, TLC

VARIABLES
    rm,        \* the RiskMetrics object of the session: <<m>>, or None
    rmCall,    \* the call on the RiskMetrics class / object: <<"call", kwargs>>
               \* before it runs, <<"RiskMetrics", kwargs>> or
               \* <<"setattr", name, value>> once it ran
    rmRaised   \* what that call raised: "none" or "ValidationError"


VARIABLES
    processor,   \* the PortfolioProcessor under construction / constructed:
                 \* <<[sim_results, tickers, weights]>>, or None
    procCall,    \* the call on the processor: <<"call", name, args...>> before
                 \* it runs, <<name, args...>> once it ran
    procRaised,  \* what that call raised: "none", "ValueError", "ValidationError"
    returned     \* what that call returned: <<[type, v]>>, or None

VARIABLES
    engine,         \* the simulator simulator_factory returned: <<obj>>, or None
    factoryCall,    \* <<"call", simulation_type, data, config>> before the call,
                    \* <<"simulator_factory", simulation_type, data, config>> after
    factoryRaised   \* what the call raised: "none" or "ValueError"

VARIABLES
    np_random,   \* the state of numpy's global generator (np.random)
    runCall,     \* <<"call", simulator, n_simulations, days>> before a run,
                 \* <<"run", simulator, n_simulations, days>> after it
    runRaised,   \* what the last run raised: "none", "LinAlgError", "ValueError"
    raw_paths    \* the tensors the runs of this process returned, in order

rmVars == <<rm, rmCall, rmRaised>>
procVars == <<processor, procCall, procRaised, returned>>
factoryVars == <<engine, factoryCall, factoryRaised>>
VARIABLES
    stressCall,         \* the call of run_stress_tests and the world it meets:
                        \* <<tag, stocks, weights, tickers, benchmark_tickers,
                        \*   scenarios, market>>, tag "call" before the call,
                        \* "running" inside the loop, "returned" / "raised" after
    scenario_index,     \* the position of the loop in self.config.scenarios
    portfolio_results,  \* scenario name -> portfolio return
    benchmark_results,  \* scenario name -> (benchmark ticker -> return)
    fetched,            \* the scenarios fetch_portfolio_data was called for
    stressRaised        \* the exception that left run_stress_tests, or "none"

VARIABLES
    fetchCall,    \* <<"call", name, args...>> before a call of
                  \* validate_date_interval or fetch_portfolio_data,
                  \* <<name, args...>> once it ran
    fetchRaised,  \* what that call raised: "none", "ValueError", "Exception"
    clean_data,   \* the frame fetch_portfolio_data returned: <<frame>>, or None
    downloads     \* how many times yf.download was called

engineVars == <<np_random, runCall, runRaised, raw_paths>>
fetchVars == <<fetchCall, fetchRaised, clean_data, downloads>>
stressVars == <<stressCall, scenario_index, portfolio_results,
                benchmark_results, fetched, stressRaised>>
vars == <<rmVars, procVars, factoryVars, engineVars, stressVars, fetchVars>>

None == <<>>

----------------------------------------------------------------------------
(* Float arithmetic *)

Abs(i) == IF i < 0 THEN -i ELSE i

Sign(i) == IF i > 0 THEN 1 ELSE IF i < 0 THEN -1 ELSE 0

RECURSIVE GCD(_, _)
GCD(a, b) == IF b = 0 THEN a ELSE GCD(b, a % b)

\* n/d in lowest terms with a non-negative denominator; x/0 is inf, -inf or nan
Rat(n, d) ==
    IF d = 0 THEN [n |-> Sign(n), d |-> 0]
    ELSE IF d = 1 THEN [n |-> n, d |-> 1]
    ELSE LET g == GCD(Abs(n), Abs(d))
             s == Sign(d)
         IN  [n |-> (s * n) \div g, d |-> Abs(d) \div g]

IsNaN(x) == x.d = 0 /\ x.n = 0
IsInf(x) == x.d = 0 /\ x.n # 0
IsFinite(x) == x.d > 0

NaN == [n |-> 0, d |-> 0]
Zero == [n |-> 0, d |-> 1]
One == [n |-> 1, d |-> 1]

FAdd(x, y) ==
    IF IsNaN(x) \/ IsNaN(y) THEN NaN
    ELSE IF IsInf(x) /\ IsInf(y) THEN (IF x.n = y.n THEN x ELSE NaN)
    ELSE IF IsInf(x) THEN x
    ELSE IF IsInf(y) THEN y
    ELSE IF x.d = y.d THEN Rat(x.n + y.n, x.d)
    ELSE LET l == (x.d \div GCD(x.d, y.d)) * y.d    \* least common denominator
         IN  Rat(x.n * (l \div x.d) + y.n * (l \div y.d), l)

FNeg(x) == [n |-> -x.n, d |-> x.d]

FSub(x, y) == FAdd(x, FNeg(y))

\* a common factor, 1 where there is none to cancel
Factor(a, b) ==
    IF a = 1 \/ b = 1 THEN 1
    ELSE LET g == GCD(Abs(a), Abs(b)) IN IF g = 0 THEN 1 ELSE g

\* the factors common to a numerator and the other denominator are cancelled
\* before multiplying, which keeps the products small
FMul(x, y) ==
    LET g == Factor(x.n, y.d)
        h == Factor(y.n, x.d)
    IN  Rat((x.n \div g) * (y.n \div h), (x.d \div h) * (y.d \div g))

\* IEEE division: finite/0 is +-inf, 0/0 is nan, finite/inf is 0
FDiv(x, y) ==
    IF IsNaN(x) \/ IsNaN(y) THEN NaN
    ELSE IF IsInf(x) /\ IsInf(y) THEN NaN
    ELSE LET g == Factor(x.n, y.n)
             h == Factor(x.d, y.d)
         IN  IF y.n < 0
             THEN Rat(-((x.n \div g) * (y.d \div h)), (x.d \div h) * ((-y.n) \div g))
             ELSE Rat((x.n \div g) * (y.d \div h), (x.d \div h) * (y.n \div g))

FAbs(x) == [n |-> Abs(x.n), d |-> x.d]

\* comparisons: every comparison with nan is False
FLe(x, y) ==
    /\ ~IsNaN(x) /\ ~IsNaN(y)
    /\ IF x.d = 0 /\ y.d = 0 THEN x.n <= y.n ELSE x.n * y.d <= y.n * x.d

FLt(x, y) ==
    /\ ~IsNaN(x) /\ ~IsNaN(y)
    /\ IF x.d = 0 /\ y.d = 0 THEN x.n < y.n ELSE x.n * y.d < y.n * x.d

FGt(x, y) == FLt(y, x)

FGe(x, y) == FLe(y, x)

----------------------------------------------------------------------------
(* RiskMetrics (data/risk_metrics.py) *)

FieldNames ==
    {"expected_return", "median_return", "var_95", "cvar_95",
     "max_drawdown", "volatility"}

\* values offered to the constructor and to attribute assignment, per field
FieldVals ==
    [expected_return : {Rat(-101, 1), Rat(1, 20), Rat(101, 1)},
     median_return   : {Rat(-101, 1), Rat(1, 20), Rat(101, 1)},
     var_95          : {Rat(-101, 1), Rat(-1, 10), Rat(1, 20), Rat(101, 1)},
     cvar_95         : {Rat(-101, 1), Rat(-1, 10), Rat(1, 10), Rat(101, 1)},
     max_drawdown    : {Rat(-101, 1), Rat(-1, 10), Zero, Rat(1, 10)},
     volatility      : {Rat(-1, 10), Zero, Rat(1, 10)}]

\* one representative set of values of field f
ValsOf(f) == {a[f] : a \in FieldVals}

RealisticBound == 100

\* @field_validator: True when the value is let through
check_realistic_bounds(v) == ~FGt(FAbs(v), Rat(RealisticBound, 1))

\* a constraint written ge=0 where gt=0 is meant
volatility_constraint_ge(v) == FGe(v, Zero)

\* Field(..., le=0)
max_drawdown_constraint(v) == FLe(v, Zero)

\* Field(..., gt=0)
volatility_constraint(v) == FGt(v, Zero)

\* the fields the bounds validator is registered for
BoundedFields == {"expected_return", "var_95", "max_drawdown"}

\* per-field validation: the locations of the fields that fail
FieldErrors(a) ==
    {f \in BoundedFields : ~check_realistic_bounds(a[f])}
    \cup (IF max_drawdown_constraint(a["max_drawdown"]) THEN {} ELSE {"max_drawdown"})
    \cup (IF volatility_constraint(a["volatility"]) THEN {} ELSE {"volatility"})

\* a validator that forgets the CVaR check
validate_risk_logic_unchecked(m) == TRUE

\* @model_validator(mode='after'): True when the object is let through
validate_risk_logic(m) == ~FGt(m["cvar_95"], m["var_95"])

\* RiskMetrics(**a): the error locations; the model validator runs only
\* when every field validated
RiskMetricsErrors(a) ==
    IF FieldErrors(a) # {} THEN FieldErrors(a)
    ELSE IF ~validate_risk_logic(a) THEN {"__root__"}
    ELSE {}

\* m = RiskMetrics(expected_return=..., ..., volatility=...)
RiskMetricsNew ==
    /\ rmCall[1] = "call"
    /\ rmCall' = <<"RiskMetrics", rmCall[2]>>
    /\ IF RiskMetricsErrors(rmCall[2]) = {}
       THEN rm' = <<rmCall[2]>> /\ rmRaised' = "none"
       ELSE rm' = None /\ rmRaised' = "ValidationError"
    /\ UNCHANGED <<procVars, factoryVars, engineVars, stressVars, fetchVars>>

\* m.<name> = v : BaseModel.__setattr__ on a model that declares neither
\* frozen=True nor validate_assignment=True stores the value unchecked
RiskMetricsSetAttr(name, v) ==
    /\ rm # None
    /\ rm' = <<[rm[1] EXCEPT ![name] = v]>>
    /\ rmCall' = <<"setattr", name, v>>
    /\ rmRaised' = "none"
    /\ UNCHANGED <<procVars, factoryVars, engineVars, stressVars, fetchVars>>

RiskMetricsNext ==
    \/ RiskMetricsNew
    \/ \E name \in FieldNames : \E v \in ValsOf(name) : RiskMetricsSetAttr(name, v)

----------------------------------------------------------------------------
(* numpy helpers used by the processor *)

RECURSIVE SeqSum(_)
SeqSum(xs) == IF xs = <<>> THEN Zero ELSE FAdd(SeqSum(SubSeq(xs, 1, Len(xs) - 1)), xs[Len(xs)])

\* np.mean
np_mean(xs) == FDiv(SeqSum(xs), Rat(Len(xs), 1))

AnyNaN(xs) == \E i \in 1..Len(xs) : IsNaN(xs[i])

RECURSIVE Insert(_, _)
Insert(x, xs) ==
    IF xs = <<>> THEN <<x>>
    ELSE IF FLe(x, xs[1]) THEN <<x>> \o xs
    ELSE <<xs[1]>> \o Insert(x, Tail(xs))

\* ascending order statistics
RECURSIVE Sorted(_)
Sorted(xs) == IF xs = <<>> THEN <<>> ELSE Insert(xs[1], Sorted(Tail(xs)))

\* floor of a finite non-negative value
Floor(x) == x.n \div x.d

\* a percentile that takes the lower neighbouring order statistic as it is
np_percentile_lower(xs, q) ==
    IF AnyNaN(xs) THEN NaN
    ELSE Sorted(xs)[Floor(FMul(FDiv(q, Rat(100, 1)), Rat(Len(xs) - 1, 1))) + 1]

\* np.percentile(xs, q), default method: linear interpolation between the two
\* order statistics around the virtual index q/100 * (n - 1); nan propagates
np_percentile(xs, q) ==
    IF AnyNaN(xs) THEN NaN
    ELSE LET n   == Len(xs)
             s   == Sorted(xs)
             pos == FMul(FDiv(q, Rat(100, 1)), Rat(n - 1, 1))
             i   == Floor(pos)
             g   == FSub(pos, Rat(i, 1))
             lo  == s[i + 1]
             hi  == s[IF i + 2 <= n THEN i + 2 ELSE n]
         IN  FAdd(lo, FMul(FSub(hi, lo), g))

\* np.median
np_median(xs) == np_percentile(xs, Rat(50, 1))

\* least k in lo..hi with k * k >= m
RECURSIVE SqrtSearch(_, _, _)
SqrtSearch(lo, hi, m) ==
    IF lo >= hi THEN lo
    ELSE LET mid == (lo + hi) \div 2
         IN  IF mid * mid >= m THEN SqrtSearch(lo, mid, m)
             ELSE SqrtSearch(mid + 1, hi, m)

\* square root of a value >= 0, rounded up to the next multiple of 1/d:
\* exact on perfect squares, and like the correctly rounded float square
\* root it is 0 only at 0
Sqrt(x) ==
    IF ~IsFinite(x) THEN x
    ELSE Rat(SqrtSearch(0, x.n + x.d, x.n * x.d), x.d)   \* sqrt(n*d) <= (n+d)/2

\* a deviation floored at a small positive epsilon, so that it is never 0
np_std_epsilon(xs) ==
    LET m  == np_mean(xs)
        sq == [i \in 1..Len(xs) |-> FMul(FSub(xs[i], m), FSub(xs[i], m))]
    IN  FAdd(Sqrt(np_mean(sq)), Rat(1, 1000))

\* np.std (population standard deviation, ddof = 0)
np_std(xs) ==
    LET m  == np_mean(xs)
        sq == [i \in 1..Len(xs) |-> FMul(FSub(xs[i], m), FSub(xs[i], m))]
    IN  Sqrt(np_mean(sq))

\* np.maximum / np.minimum of two values: nan propagates
np_maximum(x, y) == IF IsNaN(x) \/ IsNaN(y) THEN NaN ELSE IF FGe(x, y) THEN x ELSE y
np_minimum(x, y) == IF IsNaN(x) \/ IsNaN(y) THEN NaN ELSE IF FLe(x, y) THEN x ELSE y

\* np.maximum.accumulate along one path
RECURSIVE RunningMax(_)
RunningMax(path) ==
    IF Len(path) <= 1 THEN path
    ELSE LET prev == RunningMax(SubSeq(path, 1, Len(path) - 1))
         IN  Append(prev, np_maximum(prev[Len(prev)], path[Len(path)]))

RECURSIVE SeqMin(_)
SeqMin(xs) ==
    IF Len(xs) = 1 THEN xs[1]
    ELSE np_minimum(SeqMin(SubSeq(xs, 1, Len(xs) - 1)), xs[Len(xs)])

\* np.isclose(a, b): |a - b| <= atol + rtol * |b|, atol = 1e-8, rtol = 1e-5
np_isclose(a, b) ==
    /\ IsFinite(a) /\ IsFinite(b)
    /\ FLe(FAbs(FSub(a, b)),
           FAdd(Rat(1, 100000000), FMul(Rat(1, 100000), FAbs(b))))

\* a dot product that forgets the weights (plain sum over the asset axis)
np_dot_unweighted(tensor, w) ==
    [s \in 1..Len(tensor) |->
        [d \in 1..Len(tensor[s]) |-> SeqSum(tensor[s][d])]]

\* np.dot(tensor, w): sum over the last axis of tensor[s][d][a] * w[a]
np_dot(tensor, w) ==
    [s \in 1..Len(tensor) |->
        [d \in 1..Len(tensor[s]) |->
            SeqSum([a \in 1..Len(w) |-> FMul(tensor[s][d][a], w[a])])]]

----------------------------------------------------------------------------
(* PortfolioProcessor (utils/processor.py, and the older processor.py) *)

\* a length check written with < where != is meant
cardinality_mismatch_lt(tickers, weights) == Len(tickers) < Len(weights)

\* if len(self.tickers) != len(self.weights)
cardinality_mismatch(tickers, weights) == Len(tickers) # Len(weights)

\* the weights the constructor leaves in self.weights
normalized_weights(weights) ==
    LET total == SeqSum(weights) IN
    IF ~np_isclose(total, One)
    THEN [i \in 1..Len(weights) |-> FDiv(weights[i], total)]
    ELSE weights

\* PortfolioProcessor(simulation_results, ticker_names, weights)
PortfolioProcessorInit ==
    /\ procCall[1] = "call" /\ procCall[2] = "__init__"
    /\ LET tensor  == procCall[3]
           tickers == procCall[4]
           weights == procCall[5]
       IN  /\ procCall' = <<"__init__", tensor, tickers, weights>>
           /\ IF cardinality_mismatch(tickers, weights)
              THEN /\ processor' = <<[sim_results |-> tensor, tickers |-> tickers,
                                      weights |-> weights]>>
                   /\ procRaised' = "ValueError"
              ELSE /\ processor' = <<[sim_results |-> tensor, tickers |-> tickers,
                                      weights |-> normalized_weights(weights)]>>
                   /\ procRaised' = "none"
    /\ returned' = None
    /\ UNCHANGED <<rmVars, factoryVars, engineVars, stressVars, fetchVars>>

\* processor.get_portfolio_paths()
get_portfolio_paths(self) == np_dot(self.sim_results, self.weights)

GetPortfolioPaths ==
    /\ procCall[1] = "__init__" /\ procRaised = "none"
    /\ procCall' = <<"get_portfolio_paths">>
    /\ returned' = <<[type |-> "ndarray", v |-> get_portfolio_paths(processor[1])]>>
    /\ UNCHANGED <<processor, procRaised, rmVars, factoryVars,
                   engineVars, stressVars, fetchVars>>

\* final_returns = portfolio_paths[:, -1] - 1
final_returns(portfolio_paths) ==
    [s \in 1..Len(portfolio_paths) |->
        FSub(portfolio_paths[s][Len(portfolio_paths[s])], One)]

\* var = np.percentile(final_returns, (1 - confidence_level) * 100)
var(returns, confidence_level) ==
    np_percentile(returns, FMul(FSub(One, confidence_level), Rat(100, 1)))

\* the bits of the significand of a float: the 53 of float64 scaled down
Significand == 6

RECURSIVE Pow2(_)
Pow2(k) == IF k = 0 THEN 1 ELSE 2 * Pow2(k - 1)

\* the float nearest to a/d > 0 (ties to the even significand): a/d is
\* halved or doubled until its integer part has Significand bits, and the
\* fraction is then rounded away
RECURSIVE RoundPositive(_, _)
RoundPositive(a, d) ==
    IF a >= Pow2(Significand) * d
    THEN FMul(Rat(2, 1), RoundPositive(a, 2 * d))
    ELSE IF a < Pow2(Significand - 1) * d
    THEN FDiv(RoundPositive(2 * a, d), Rat(2, 1))
    ELSE LET q == a \div d
             r == a % d
         IN  Rat(IF 2 * r > d \/ (2 * r = d /\ q % 2 = 1) THEN q + 1 ELSE q, 1)

\* the rounding of the exact result of a float operation
Fl(x) ==
    IF ~IsFinite(x) \/ x.n = 0 THEN x
    ELSE IF x.n > 0 THEN RoundPositive(x.n, x.d)
    ELSE FNeg(RoundPositive(-x.n, x.d))

\* the float sum of an array, element after element
RECURSIVE float_sum(_)
float_sum(xs) ==
    IF xs = <<>> THEN Zero
    ELSE Fl(FAdd(float_sum(SubSeq(xs, 1, Len(xs) - 1)), xs[Len(xs)]))

\* ndarray.mean(): the float sum over the count, as a float
float_mean(xs) == Fl(FDiv(float_sum(xs), Rat(Len(xs), 1)))

\* the mean of the returns strictly below the VaR
cvar_strict(returns, v) ==
    LET tail == SelectSeq(returns, LAMBDA r : FLt(r, v))
    IN  IF tail # <<>> THEN float_mean(tail) ELSE v

\* cvar = final_returns[final_returns <= var].mean()
\*        if any(final_returns <= var) else var
cvar(returns, v) ==
    LET tail == SelectSeq(returns, LAMBDA r : FLe(r, v))
    IN  IF tail # <<>> THEN float_mean(tail) ELSE v

\* peak = np.maximum.accumulate(portfolio_paths, axis=1)
\* drawdowns = (portfolio_paths - peak) / peak
drawdowns(portfolio_paths) ==
    [s \in 1..Len(portfolio_paths) |->
        LET path == portfolio_paths[s]
            peak == RunningMax(path)
        IN  [d \in 1..Len(path) |-> FDiv(FSub(path[d], peak[d]), peak[d])]]

\* the mean over the paths of each path's worst drawdown
max_drawdown_mean(portfolio_paths) ==
    LET dd == drawdowns(portfolio_paths)
    IN  np_mean([s \in 1..Len(dd) |-> SeqMin(dd[s])])

\* max_drawdown = np.min(drawdowns): over every path and day together
max_drawdown(portfolio_paths) ==
    LET dd == drawdowns(portfolio_paths)
    IN  SeqMin([s \in 1..Len(dd) |-> SeqMin(dd[s])])

\* the six values calculate_risk_metrics computes from the path matrix
risk_values(portfolio_paths, confidence_level) ==
    LET fr == final_returns(portfolio_paths)
        v  == var(fr, confidence_level)
    IN  [expected_return |-> np_mean(fr),
         median_return   |-> np_median(fr),
         var_95          |-> v,
         cvar_95         |-> cvar(fr, v),
         max_drawdown    |-> max_drawdown(portfolio_paths),
         volatility      |-> np_std(fr)]

\* utils/processor.py: the values go through the RiskMetrics constructor
calculate_risk_metrics(portfolio_paths, confidence_level) ==
    LET a == risk_values(portfolio_paths, confidence_level) IN
    IF RiskMetricsErrors(a) = {}
    THEN [raised |-> "none", returned |-> <<[type |-> "RiskMetrics", v |-> a]>>]
    ELSE [raised |-> "ValidationError", returned |-> None]

\* processor.py: the values are returned as a plain dict
legacy_calculate_risk_metrics(portfolio_paths, confidence_level) ==
    [raised |-> "none",
     returned |-> <<[type |-> "dict", v |-> risk_values(portfolio_paths, confidence_level)]>>]

DefaultConfidence == Rat(95, 100)

\* processor.calculate_risk_metrics(portfolio_paths, confidence_level), called
\* on a path matrix of the caller's
CalculateRiskMetrics ==
    /\ procCall[1] = "call" /\ procCall[2] = "calculate_risk_metrics"
    /\ \E r \in {calculate_risk_metrics(procCall[3], procCall[4])} :
           /\ procCall' = <<"calculate_risk_metrics", procCall[3], procCall[4]>>
           /\ procRaised' = r.raised
           /\ returned' = r.returned
    /\ UNCHANGED <<processor, rmVars, factoryVars, engineVars,
                   stressVars, fetchVars>>

\* main.py: metrics = processor.calculate_risk_metrics(paths) on the matrix
\* get_portfolio_paths returned
CalculateRiskMetricsOfPaths ==
    /\ procCall[1] = "get_portfolio_paths"
    /\ \E r \in {calculate_risk_metrics(returned[1].v, DefaultConfidence)} :
           /\ procCall' = <<"calculate_risk_metrics", returned[1].v, DefaultConfidence>>
           /\ procRaised' = r.raised
           /\ returned' = r.returned
    /\ UNCHANGED <<processor, rmVars, factoryVars, engineVars,
                   stressVars, fetchVars>>

\* the same call on the PortfolioProcessor of processor.py
LegacyCalculateRiskMetrics ==
    /\ procCall[1] = "call" /\ procCall[2] = "calculate_risk_metrics"
    /\ \E r \in {legacy_calculate_risk_metrics(procCall[3], procCall[4])} :
           /\ procCall' = <<"processor.calculate_risk_metrics", procCall[3], procCall[4]>>
           /\ procRaised' = r.raised
           /\ returned' = r.returned
    /\ UNCHANGED <<processor, rmVars, factoryVars, engineVars,
                   stressVars, fetchVars>>

(* inputs *)

MaxAssets == 2
MaxWeights == 3
MaxSims == 2
MaxPathSims == 3

Tickers == <<"AAA", "BBB", "CCC", "DDD">>

TickerLists == {SubSeq(Tickers, 1, n) : n \in 1..MaxAssets}

WeightVals == {Rat(-2, 1), Zero, Rat(1, 2), Rat(2, 1)}

\* every short weight vector
WeightVectors == UNION {[1..n -> WeightVals] : n \in 0..MaxWeights}

\* growth paths of one asset over a two-day horizon: a rise and a fall
AssetPaths == <<<<One, Rat(2, 1)>>, <<Rat(2, 1), One>>>>

\* tensors (simulation x day x asset): in every simulation neighbouring
\* assets take opposite paths, and phase[s] says which asset rises first
Tensors(n) ==
    UNION {
        {[s \in 1..S |-> [d \in 1..2 |->
            [a \in 1..n |-> AssetPaths[((a + phase[s]) % 2) + 1][d]]]] :
            phase \in [1..S -> {0, 1}]} :
        S \in 1..MaxSims}

PathVals == {Rat(1, 2), One, Rat(2, 1)}

PathDays == {1, 2}

\* portfolio path matrices (simulation x day), and three special ones:
\* a return above 10,000%, a path through 0, and three simulations that
\* end on the same value 41/16 below a fourth
PathMatrices ==
    UNION {[1..S -> [1..D -> PathVals]] : S \in 1..MaxPathSims, D \in PathDays}
    \cup {<<<<Rat(202, 1)>>, <<One>>>>, <<<<Zero, One>>, <<One, One>>>>,
          <<<<Rat(41, 16)>>, <<Rat(41, 16)>>, <<Rat(41, 16)>>, <<Rat(4, 1)>>>>}

ConfidenceLevels == {DefaultConfidence, Rat(1, 2)}

ProcessorNext ==
    \/ PortfolioProcessorInit
    \/ GetPortfolioPaths
    \/ CalculateRiskMetrics
    \/ CalculateRiskMetricsOfPaths
    \/ LegacyCalculateRiskMetrics

----------------------------------------------------------------------------
(* simulator_factory (engine/__init__.py) and BaseSimulator (engine/base.py) *)

\* BaseSimulator.__init__(self, data, config), inherited by every simulator
BaseSimulator(cls, data, config) ==
    [class      |-> cls,
     data       |-> data,
     config     |-> config,
     tickers    |-> config.portfolio.stocks,
     benchmarks |-> config.portfolio.benchmarks]

\* the registry: strategy name -> simulator class
strategies ==
    [monte_carlo    |-> "MonteCarloSimulator",
     bootstrap      |-> "BootstrapSimulator",
     jump_diffusion |-> "JumpDiffusionSimulator"]

\* a factory that falls back to Monte Carlo for a name it does not know
simulator_factory_fallback(simulation_type, data, config) ==
    [raised   |-> "none",
     returned |-> <<BaseSimulator(
                      IF simulation_type \in DOMAIN strategies
                      THEN strategies[simulation_type] ELSE "MonteCarloSimulator",
                      data, config)>>]

simulator_factory(simulation_type, data, config) ==
    IF simulation_type \notin DOMAIN strategies
    THEN [raised |-> "ValueError", returned |-> None]
    ELSE [raised   |-> "none",
          returned |-> <<BaseSimulator(strategies[simulation_type], data, config)>>]

SimulatorFactory ==
    /\ factoryCall[1] = "call"
    /\ LET r == simulator_factory(factoryCall[2], factoryCall[3], factoryCall[4])
       IN  /\ engine' = r.returned
           /\ factoryRaised' = r.raised
    /\ factoryCall' = <<"simulator_factory", factoryCall[2], factoryCall[3], factoryCall[4]>>
    /\ UNCHANGED <<rmVars, procVars, engineVars, stressVars, fetchVars>>

(* inputs *)

\* names asked of the factory: the registered ones, a class-like name, a
\* differently cased one, an abbreviation and the empty string
SimulationTypes ==
    {"monte_carlo", "bootstrap", "jump_diffusion",
     "geometric_brownian", "Monte_Carlo", "gbm", ""}

\* closing prices, one row per date and one column per stock
PriceMatrices ==
    {<<<<Rat(100, 1), Rat(50, 1)>>, <<Rat(101, 1), Rat(50, 1)>>>>,
     <<<<Rat(100, 1), Rat(50, 1)>>, <<Rat(99, 1), Rat(51, 1)>>,
       <<Rat(100, 1), Rat(52, 1)>>>>,
     <<<<Rat(10, 1), Rat(10, 1)>>>>}

\* main.py reads config.portfolio.stocks and .benchmarks before it calls the
\* factory, so every config the factory sees has them
Configs ==
    [portfolio : [stocks : TickerLists, benchmarks : {<<>>, <<"SPY">>}]]

FactoryNext == SimulatorFactory

----------------------------------------------------------------------------
(* The path generators (engine/monte_carlo.py, engine/geometric_brownian.py, *)
(* engine/jump_diffusion.py)                                                 *)
(*                                                                           *)
(* The log-return generators work on prices e^x and produce growth factors   *)
(* e^y: such a value is held by its logarithm, [exp |-> x], so that np.log,  *)
(* np.exp and the products of exponentials are exact.                        *)

\* the generator has the states 0..MaxSeed; a process makes at most MaxRuns
\* runs, of at most MaxRunSims simulations over at most MaxDays days
MaxSeed == 6
MaxRuns == 2
MaxRunSims == 2
MaxDays == 2

np_exp(x) == [exp |-> x]

np_log(p) == p.exp

\* numpy's global generator: every draw reads the state and advances it
rng_next(state) == (3 * state + 1) % (MaxSeed + 1)

\* the raw outputs of the next k draws
RECURSIVE rng_stream(_, _)
rng_stream(state, k) ==
    IF k = 0 THEN <<>> ELSE <<state>> \o rng_stream(rng_next(state), k - 1)

\* the state after k draws
RECURSIVE rng_skip(_, _)
rng_skip(state, k) == IF k = 0 THEN state ELSE rng_skip(rng_next(state), k - 1)

\* np.random.normal(loc, scale): a standard-normal draw of -1, 0 or 1
np_random_normal(loc, scale, u) == FAdd(loc, FMul(scale, Rat((u % 3) - 1, 1)))

\* np.random.poisson(lam): a count of 0 or 1 when lam > 0
np_random_poisson(u) == Rat(u % 2, 1)

\* np.random.choice(n): a row position in 1..n
np_random_choice(n, u) == (u % n) + 1

\* self.data[self.tickers]: the stocks' columns, in the order of the tickers
IndexOf(columns, t) == CHOOSE i \in 1..Len(columns) : columns[i] = t

asset_data(self) ==
    [r \in 1..Len(self.data.rows) |->
        [a \in 1..Len(self.tickers) |->
            self.data.rows[r][IndexOf(self.data.columns, self.tickers[a])]]]

\* np.log(asset_data / asset_data.shift(1)).dropna()
log_returns(prices) ==
    [r \in 1..(Len(prices) - 1) |->
        [a \in 1..Len(prices[1]) |->
            FSub(np_log(prices[r + 1][a]), np_log(prices[r][a]))]]

\* asset_data.pct_change().dropna()
pct_change(prices) ==
    [r \in 1..(Len(prices) - 1) |->
        [a \in 1..Len(prices[1]) |->
            FSub(FDiv(prices[r + 1][a], prices[r][a]), One)]]

Column(rows, a) == [r \in 1..Len(rows) |-> rows[r][a]]

\* DataFrame.cov(): sample covariance (ddof = 1), nan below two rows
covariance(xs, ys) ==
    IF Len(xs) < 2 THEN NaN
    ELSE LET mx == np_mean(xs)
             my == np_mean(ys)
         IN  FDiv(SeqSum([r \in 1..Len(xs) |->
                             FMul(FSub(xs[r], mx), FSub(ys[r], my))]),
                  Rat(Len(xs) - 1, 1))

\* DataFrame.std(): sample standard deviation (ddof = 1), nan below two rows
sample_std(xs) == Sqrt(covariance(xs, xs))

\* the Cholesky factor, entry by entry (potrf reads the lower triangle)
RECURSIVE CholeskyEntry(_, _, _)
CholeskyEntry(c, i, j) ==
    LET acc == SeqSum([k \in 1..(j - 1) |->
                          FMul(CholeskyEntry(c, i, k), CholeskyEntry(c, j, k))])
    IN  IF i = j THEN Sqrt(FSub(c[j][j], acc))
        ELSE IF i > j THEN FDiv(FSub(c[i][j], acc), CholeskyEntry(c, j, j))
        ELSE Zero

\* the value under the square root of the j-th diagonal entry
Pivot(c, j) ==
    FSub(c[j][j], SeqSum([k \in 1..(j - 1) |->
                             FMul(CholeskyEntry(c, j, k), CholeskyEntry(c, j, k))]))

\* np.linalg.cholesky(c): the outcomes of the factorisation.  A pivot <= 0
\* raises LinAlgError.  A nan pivot passes the test "pivot <= 0" of some
\* LAPACK builds (the factor is then nan) and fails the test "pivot <= 0 or
\* isnan(pivot)" of others: both outcomes are kept.
np_linalg_cholesky(c) ==
    LET n   == Len(c)
        bad == {j \in 1..n : ~FGt(Pivot(c, j), Zero)}
        L   == [i \in 1..n |-> [j \in 1..n |-> CholeskyEntry(c, i, j)]]
    IN  IF bad = {} THEN {[raised |-> "none", L |-> L]}
        ELSE LET first == CHOOSE j \in bad : \A k \in bad : j <= k
             IN  IF IsNaN(Pivot(c, first))
                 THEN {[raised |-> "LinAlgError", L |-> <<>>],
                       [raised |-> "none",
                        L |-> [i \in 1..n |-> [j \in 1..n |->
                                  IF j > i THEN Zero ELSE NaN]]]}
                 ELSE {[raised |-> "LinAlgError", L |-> <<>>]}

\* np.cumprod(np.exp(log_growth), axis=0)
cumprod_exp(log_growth) ==
    [d \in 1..Len(log_growth) |->
        [a \in 1..Len(log_growth[1]) |->
            np_exp(SeqSum([e \in 1..d |-> log_growth[e][a]]))]]

\* np.cumprod(1 + sampled_returns, axis=0)
RECURSIVE cumprod_growth(_)
cumprod_growth(sampled_returns) ==
    IF Len(sampled_returns) = 1
    THEN <<[a \in 1..Len(sampled_returns[1]) |-> FAdd(One, sampled_returns[1][a])]>>
    ELSE LET D    == Len(sampled_returns)
             prev == cumprod_growth(SubSeq(sampled_returns, 1, D - 1))
         IN  Append(prev, [a \in 1..Len(sampled_returns[1]) |->
                              FMul(prev[D - 1][a], FAdd(One, sampled_returns[D][a]))])

\* a (days x assets) array of raw draws, filled row by row from the stream u
Drawn(u, days, n) ==
    [d \in 1..days |-> [a \in 1..n |-> u[(d - 1) * n + a]]]

\* np.random.normal(loc, scale, (days, n)) over the raw draws u
normal_array(loc, scale, u, days, n) ==
    [d \in 1..days |-> [a \in 1..n |->
        np_random_normal(loc, scale, Drawn(u, days, n)[d][a])]]

\* np.random.poisson(lam, (days, n)) over the raw draws u, for lam > 0
poisson_array(u, days, n) ==
    [d \in 1..days |-> [a \in 1..n |-> np_random_poisson(Drawn(u, days, n)[d][a])]]

\* one pass of the loop of MonteCarloSimulator.run, from generator state st
monte_carlo_path(avg_returns, L, days, n, st) ==
    LET random_shocks == normal_array(Zero, One, rng_stream(st, days * n), days, n)
        correlated_shocks ==
            [d \in 1..days |-> [a \in 1..n |->
                SeqSum([j \in 1..n |-> FMul(random_shocks[d][j], L[a][j])])]]
    IN  cumprod_exp([d \in 1..days |-> [a \in 1..n |->
            FAdd(avg_returns[a], correlated_shocks[d][a])]])

\* MonteCarloSimulator.run(n_simulations, days) with the generator in state
\* st: the set of its outcomes (what it raised, what it returned, the
\* generator's state afterwards)
MonteCarloSimulator_run(self, n_simulations, days, st) ==
    LET n           == Len(self.tickers)
        returns     == log_returns(asset_data(self))
        avg_returns == [a \in 1..n |-> np_mean(Column(returns, a))]
        cov_matrix  == [a \in 1..n |-> [b \in 1..n |->
                           covariance(Column(returns, a), Column(returns, b))]]
    IN  {IF c.raised # "none"
         THEN [raised |-> c.raised, returned |-> None, np_random |-> st]
         ELSE [raised    |-> "none",
               returned  |-> <<[s \in 1..n_simulations |->
                                  monte_carlo_path(avg_returns, c.L, days, n,
                                      rng_skip(st, (s - 1) * days * n))]>>,
               np_random |-> rng_skip(st, n_simulations * days * n)] :
         c \in np_linalg_cholesky(cov_matrix)}

\* a bootstrap that draws every asset's return from a row of its own
bootstrap_path_per_asset(returns, days, st) ==
    LET n == Len(returns[1])
        u == rng_stream(st, days * n)
    IN  cumprod_growth([d \in 1..days |-> [a \in 1..n |->
            returns[np_random_choice(Len(returns), u[(d - 1) * n + a])][a]]])

\* one pass of the loop of GeometricBrownianSimulator.run
bootstrap_path(returns, days, st) ==
    LET u       == rng_stream(st, days)
        indices == [d \in 1..days |-> np_random_choice(Len(returns), u[d])]
    IN  cumprod_growth([d \in 1..days |-> returns[indices[d]]])

\* GeometricBrownianSimulator.run(n_simulations, days): the historical
\* bootstrap; np.random.choice(0, ...) raises ValueError
GeometricBrownianSimulator_run(self, n_simulations, days, st) ==
    LET returns == pct_change(asset_data(self))
    IN  IF Len(returns) = 0
        THEN {[raised |-> "ValueError", returned |-> None, np_random |-> st]}
        ELSE {[raised    |-> "none",
               returned  |-> <<[s \in 1..n_simulations |->
                                  bootstrap_path(returns, days,
                                                 rng_skip(st, (s - 1) * days))]>>,
               np_random |-> rng_skip(st, n_simulations * days)]}

\* dict.get(key, default)
get(d, key, default) == IF key \in DOMAIN d THEN d[key] ELSE default

TradingDays == 252

\* one pass of the loop of JumpDiffusionSimulator.run; a Poisson draw with
\* rate 0 is 0 and takes nothing from the generator
jump_diffusion_path(mu, sigma, lam, j_mu, j_sigma, days, n, st) ==
    LET rate == FDiv(lam, Rat(TradingDays, 1))
        k    == days * n
        u    == rng_stream(st, 3 * k)
        random_shocks  == normal_array(Zero, One, SubSeq(u, 1, k), days, n)
        jumps_occurred ==
            IF rate = Zero THEN [d \in 1..days |-> [a \in 1..n |-> Zero]]
            ELSE poisson_array(SubSeq(u, k + 1, 2 * k), days, n)
        jump_sizes ==
            IF rate = Zero
            THEN normal_array(j_mu, j_sigma, SubSeq(u, k + 1, 2 * k), days, n)
            ELSE normal_array(j_mu, j_sigma, SubSeq(u, 2 * k + 1, 3 * k), days, n)
    IN  cumprod_exp([d \in 1..days |-> [a \in 1..n |->
            FAdd(FAdd(FSub(mu[a], FMul(Rat(1, 2), FMul(sigma[a], sigma[a]))),
                      FMul(sigma[a], random_shocks[d][a])),
                 FMul(jumps_occurred[d][a], jump_sizes[d][a]))]])

\* the draws one pass takes from the generator
jump_diffusion_draws(lam, days, n) ==
    IF FDiv(lam, Rat(TradingDays, 1)) = Zero THEN 2 * days * n ELSE 3 * days * n

\* JumpDiffusionSimulator.run(n_simulations, days)
JumpDiffusionSimulator_run(self, n_simulations, days, st) ==
    LET n       == Len(self.tickers)
        returns == log_returns(asset_data(self))
        mu      == [a \in 1..n |-> np_mean(Column(returns, a))]
        sigma   == [a \in 1..n |-> sample_std(Column(returns, a))]
        lam     == get(self.config.simulation, "jump_lambda", Rat(1, 10))
        j_mu    == get(self.config.simulation, "jump_mu", Rat(-1, 20))
        j_sigma == get(self.config.simulation, "jump_sigma", Rat(1, 10))
        per     == jump_diffusion_draws(lam, days, n)
    IN  {[raised    |-> "none",
          returned  |-> <<[s \in 1..n_simulations |->
                             jump_diffusion_path(mu, sigma, lam, j_mu, j_sigma,
                                 days, n, rng_skip(st, (s - 1) * per))]>>,
          np_random |-> rng_skip(st, n_simulations * per)]}

\* simulation_engine.run(n_simulations, days), by the class of the engine
run(self, n_simulations, days, st) ==
    IF self.class = "MonteCarloSimulator"
    THEN MonteCarloSimulator_run(self, n_simulations, days, st)
    ELSE IF self.class = "GeometricBrownianSimulator"
    THEN GeometricBrownianSimulator_run(self, n_simulations, days, st)
    ELSE JumpDiffusionSimulator_run(self, n_simulations, days, st)

\* main.py: raw_paths = simulation_engine.run(n_simulations, days_ahead), and
\* the same call again later in the same process
Run ==
    /\ runCall[1] \in {"call", "run"}
    /\ Len(raw_paths) < MaxRuns
    /\ \E o \in run(runCall[2], runCall[3], runCall[4], np_random) :
          /\ runRaised' = o.raised
          /\ np_random' = o.np_random
          /\ raw_paths' = IF o.raised = "none"
                          THEN Append(raw_paths, o.returned[1]) ELSE raw_paths
          /\ runCall' = IF o.raised = "none"
                        THEN <<"run", runCall[2], runCall[3], runCall[4]>>
                        ELSE <<"raised", runCall[2], runCall[3], runCall[4]>>
    /\ UNCHANGED <<rmVars, procVars, factoryVars, stressVars, fetchVars>>

(* inputs *)

\* the logarithms (in tenths) of the closing prices of up to three stocks:
\*   flat    every log-return of stock a is a/10 (no volatility)
\*   varied  five log-returns per stock, with the covariance matrix
\*           [[1, 1, 0], [1, 2, 0], [0, 0, 1]] / 100
\*   short   two closing prices, one log-return
LogPriceTenths ==
    [flat   |-> <<<<0, 1, 2>>, <<0, 2, 4>>, <<0, 3, 6>>>>,
     varied |-> <<<<0, 2, 4, 4, 4, 5>>, <<0, 2, 2, 2, 0, 0>>,
                  <<0, 1, 0, -1, 0, 0>>>>,
     short  |-> <<<<0, 1>>, <<0, 2>>, <<0, -1>>>>]

\* closing prices of up to three stocks:
\*   single  one return row, +0.01 for every stock
\*   varied  two return rows: (+0.1, -0.2, 0) and (-0.1, +0.25, +1)
ClosingPrices ==
    [single |-> <<<<100, 101>>, <<100, 101>>, <<100, 101>>>>,
     varied |-> <<<<100, 110, 99>>, <<50, 40, 50>>, <<10, 10, 20>>>>]

\* the table entry of ticker number a on date number r
Cell(table, kind, r, a) == table[kind][((a - 1) % 3) + 1][r]

\* the price windows of the tickers, one column per ticker: prices e^(k/10)
LogWindows(tickers) ==
    {[columns |-> tickers,
      rows    |-> [r \in 1..Len(LogPriceTenths[kind][1]) |->
                     [a \in 1..Len(tickers) |->
                         np_exp(Rat(Cell(LogPriceTenths, kind, r, a), 10))]]] :
        kind \in DOMAIN LogPriceTenths}

\* the price windows of the tickers, one column per ticker: prices k
PriceWindows(tickers) ==
    {[columns |-> tickers,
      rows    |-> [r \in 1..Len(ClosingPrices[kind][1]) |->
                     [a \in 1..Len(tickers) |->
                         Rat(Cell(ClosingPrices, kind, r, a), 1)]]] :
        kind \in DOMAIN ClosingPrices}

\* config.simulation: the jump settings, given or left to their defaults
JumpSettings ==
    {<<>>,
     [jump_lambda |-> Zero],
     [jump_lambda |-> Rat(TradingDays, 1), jump_mu |-> Rat(-1, 10),
      jump_sigma |-> Zero]}

\* the simulators main.py may hold: each class over the windows it can read
Simulators ==
    UNION {
        {BaseSimulator("MonteCarloSimulator", data,
                       [portfolio |-> [stocks |-> tickers, benchmarks |-> <<>>],
                        simulation |-> <<>>]) : data \in LogWindows(tickers)}
        \cup
        {BaseSimulator("GeometricBrownianSimulator", data,
                       [portfolio |-> [stocks |-> tickers, benchmarks |-> <<>>],
                        simulation |-> <<>>]) : data \in PriceWindows(tickers)}
        \cup
        {BaseSimulator("JumpDiffusionSimulator", data,
                       [portfolio |-> [stocks |-> tickers, benchmarks |-> <<>>],
                        simulation |-> js]) :
            data \in LogWindows(tickers), js \in JumpSettings} :
        tickers \in TickerLists}

EngineNext == Run

----------------------------------------------------------------------------
(* StressTester.run_stress_tests (utils/processor.py) over                   *)
(* fetch_portfolio_data (api.py) and validate_date_interval (utils.py)       *)

MaxScenarios == 2

\* datetime.strptime: the day number of every text that parses
Calendar ==
    ("2020-02-19" :> 1) @@ ("2020-03-23" :> 2) @@ ("2024-06-03" :> 5)
        @@ ("2999-01-01" :> 9)

\* the same for texts written day first
CalendarDayFirst == ("19/02/2020" :> 1) @@ ("23/03/2020" :> 2)

\* datetime.now(), as a day number
Today == 5

DateFormat == "%Y-%m-%d"

DayFirstFormat == "%d/%m/%Y"

\* datetime.strptime(text, date_format): <<day>>, or None for a ValueError
strptime(text, date_format) ==
    IF date_format = DateFormat /\ text \in DOMAIN Calendar
    THEN <<Calendar[text]>>
    ELSE IF date_format = DayFirstFormat /\ text \in DOMAIN CalendarDayFirst
    THEN <<CalendarDayFirst[text]>>
    ELSE None

\* a validation that refuses an interval of a single day
validate_date_interval_strict(start_date, end_date, date_format) ==
    LET start == strptime(start_date, date_format)
        end   == strptime(end_date, date_format)
    IN  IF start = None \/ end = None THEN "ValueError"
        ELSE IF start[1] >= end[1] THEN "ValueError"
        ELSE IF end[1] > Today THEN "ValueError"
        ELSE "none"

\* validate_date_interval(start_date, end_date, date_format): what it raises
validate_date_interval(start_date, end_date, date_format) ==
    LET start == strptime(start_date, date_format)
        end   == strptime(end_date, date_format)
    IN  IF start = None \/ end = None THEN "ValueError"
        ELSE IF start[1] > end[1] THEN "ValueError"
        ELSE IF end[1] > Today THEN "ValueError"
        ELSE "none"

\* DataFrame.dropna(): the rows without a missing cell
dropna(rows) ==
    SelectSeq(rows, LAMBDA row : \A c \in 1..Len(row) : ~IsNaN(row[c]))

\* fetch_portfolio_data(...), where download is what yf.download does for
\* the interval: it raises, or it returns closing prices with missing cells;
\* downloads counts the calls of yf.download
fetch_portfolio_data(tickers, benchmarks, start_date, end_date, dates_format, download) ==
    IF validate_date_interval(start_date, end_date, dates_format) # "none"
    THEN [raised |-> "ValueError", data |-> None, downloads |-> 0]
    ELSE IF download.raises
    THEN [raised |-> "Exception", data |-> None, downloads |-> 1]
    ELSE IF download.rows = <<>>
    THEN [raised |-> "ValueError", data |-> None, downloads |-> 1]
    ELSE IF dropna(download.rows) = <<>>
    THEN [raised |-> "ValueError", data |-> None, downloads |-> 1]
    ELSE [raised    |-> "none",
          data      |-> <<[columns |-> download.columns,
                           rows    |-> dropna(download.rows)]>>,
          downloads |-> 1]

\* validate_date_interval(start_date, end_date, date_format) is called
ValidateDateInterval ==
    /\ fetchCall[1] = "call" /\ fetchCall[2] = "validate_date_interval"
    /\ fetchRaised' = validate_date_interval(fetchCall[3], fetchCall[4], fetchCall[5])
    /\ fetchCall' = Tail(fetchCall)
    /\ UNCHANGED <<clean_data, downloads, rmVars, procVars, factoryVars,
                   engineVars, stressVars>>

\* fetch_portfolio_data(tickers, benchmarks, start_date, end_date) is called
\* while the market holds fetchCall[8] for the interval
FetchPortfolioData ==
    /\ fetchCall[1] = "call" /\ fetchCall[2] = "fetch_portfolio_data"
    /\ \E f \in {fetch_portfolio_data(fetchCall[3], fetchCall[4], fetchCall[5],
                                       fetchCall[6], fetchCall[7], fetchCall[8])} :
          /\ fetchRaised' = f.raised
          /\ clean_data' = f.data
          /\ downloads' = downloads + f.downloads
    /\ fetchCall' = Tail(fetchCall)
    /\ UNCHANGED <<rmVars, procVars, factoryVars, engineVars, stressVars>>

Range(seq) == {seq[i] : i \in 1..Len(seq)}

Min(a, b) == IF a <= b THEN a ELSE b

\* dict(zip(tickers, weights)): the i-th ticker iterated gets the i-th weight
weight_map(tickers, weights) ==
    [t \in {tickers[i] : i \in 1..Min(Len(tickers), Len(weights))} |->
        weights[IndexOf(tickers, t)]]

\* DataFrame.sum(axis=1): missing values are skipped
pandas_sum(xs) == SeqSum(SelectSeq(xs, LAMBDA x : ~IsNaN(x)))

\* (1 + performance).cumprod().iloc[-1] - 1
RECURSIVE cumprod_last(_)
cumprod_last(performance) ==
    IF performance = <<>> THEN One
    ELSE FMul(cumprod_last(SubSeq(performance, 1, Len(performance) - 1)),
              FAdd(One, performance[Len(performance)]))

cumulative_return(performance) == FSub(cumprod_last(performance), One)

\* the body of the try block for one scenario: what it raised, and the two
\* result maps as it left them.  market.fault names the benchmark whose
\* computation raises ("none": no computation raises)
try_scenario(scenario, market, weights, tickers, benchmark_tickers, date_format, p_results, b_results) ==
    LET f == fetch_portfolio_data(tickers, benchmark_tickers, scenario.start,
                                  scenario.end, date_format, market.download)
    IN  IF f.raised # "none"
        THEN [raised |-> f.raised, portfolio_results |-> p_results,
              benchmark_results |-> b_results]
        ELSE
        LET columns == f.data[1].columns
            returns == pct_change(f.data[1].rows)
        IN  IF returns = <<>>
            THEN [raised |-> "none", portfolio_results |-> p_results,
                  benchmark_results |-> b_results]
            ELSE
            LET wm            == weight_map(tickers, weights)
                valid_tickers == SelectSeq(tickers, LAMBDA t : t \in Range(columns))
            IN  IF \E i \in 1..Len(valid_tickers) : valid_tickers[i] \notin DOMAIN wm
                THEN [raised |-> "KeyError", portfolio_results |-> p_results,
                      benchmark_results |-> b_results]
                ELSE
                LET orig_w == [i \in 1..Len(valid_tickers) |-> wm[valid_tickers[i]]]
                    new_w  == [i \in 1..Len(orig_w) |-> FDiv(orig_w[i], SeqSum(orig_w))]
                    portfolio_performance ==
                        [r \in 1..Len(returns) |->
                            pandas_sum([i \in 1..Len(valid_tickers) |->
                                FMul(returns[r][IndexOf(columns, valid_tickers[i])],
                                     new_w[i])])]
                    p2 == (scenario.name :> cumulative_return(portfolio_performance))
                              @@ p_results
                    present == SelectSeq(benchmark_tickers,
                                         LAMBDA b : b \in Range(columns))
                    failing == {i \in 1..Len(present) : present[i] = market.fault}
                    done    == IF failing = {} THEN Len(present)
                               ELSE (CHOOSE i \in failing : \A j \in failing : i <= j) - 1
                    entry   == [b \in {present[i] : i \in 1..done} |->
                                   cumulative_return(
                                       Column(returns, IndexOf(columns, b)))]
                IN  [raised |-> IF failing = {} THEN "none" ELSE "Exception",
                     portfolio_results |-> p2,
                     benchmark_results |-> (scenario.name :> entry) @@ b_results]

\* a pass without the except clause: what the try block raised leaves the call
evaluate_scenario_unguarded(attempt) ==
    [escaped |-> attempt.raised, logged |-> "none",
     portfolio_results |-> attempt.portfolio_results,
     benchmark_results |-> attempt.benchmark_results]

\* one pass of the loop, given the outcome of its try block:
\* except Exception as e: logger.error(...), and the loop goes on
evaluate_scenario(attempt) ==
    [escaped |-> "none", logged |-> attempt.raised,
     portfolio_results |-> attempt.portfolio_results,
     benchmark_results |-> attempt.benchmark_results]

\* tester.run_stress_tests(weights, tickers, benchmark_tickers) is entered
RunStressTests ==
    /\ stressCall[1] = "call"
    /\ stressCall' = [stressCall EXCEPT ![1] = "running"]
    /\ scenario_index' = 1
    /\ portfolio_results' = <<>>
    /\ benchmark_results' = <<>>
    /\ UNCHANGED <<fetched, stressRaised, rmVars, procVars,
                   factoryVars, engineVars, fetchVars>>

\* for scenario in self.config.scenarios: one pass
EvaluateScenario ==
    /\ stressCall[1] = "running"
    /\ scenario_index <= Len(stressCall[6])
    /\ LET scenario == stressCall[6][scenario_index]
           o == evaluate_scenario(
                    try_scenario(scenario, stressCall[7][scenario_index],
                                 stressCall[3], stressCall[4], stressCall[5],
                                 DateFormat, portfolio_results, benchmark_results))
       IN  /\ fetched' = Append(fetched, scenario.name)
           /\ portfolio_results' = o.portfolio_results
           /\ benchmark_results' = o.benchmark_results
           /\ stressRaised' = o.escaped
           /\ IF o.escaped = "none"
              THEN /\ scenario_index' = scenario_index + 1
                   /\ UNCHANGED stressCall
              ELSE /\ stressCall' = [stressCall EXCEPT ![1] = "raised"]
                   /\ UNCHANGED scenario_index
    /\ UNCHANGED <<rmVars, procVars, factoryVars, engineVars, fetchVars>>

\* return portfolio_results, benchmark_results
ReturnStressResults ==
    /\ stressCall[1] = "running"
    /\ scenario_index > Len(stressCall[6])
    /\ stressCall' = [stressCall EXCEPT ![1] = "returned"]
    /\ UNCHANGED <<scenario_index, portfolio_results, benchmark_results, fetched,
                   stressRaised, rmVars, procVars, factoryVars,
                   engineVars, fetchVars>>

(* inputs *)

ScenarioNames == <<"2008 Crisis", "2020 COVID Crash", "2022 Bear Market",
                   "2011 Debt Ceiling">>

\* config.portfolio.stocks with config.portfolio.weights (main.py); the
\* one-weight list for two stocks is a mismatched config
StressPortfolios ==
    {<<<<"AAA">>, <<One>>>>,
     <<<<"AAA", "BBB">>, <<Rat(3, 5), Rat(2, 5)>>>>,
     <<<<"AAA", "BBB">>, <<Rat(1, 2), Rat(1, 2)>>>>,
     <<<<"AAA", "BBB">>, <<One>>>>}

\* the reorderings of n items
Reorderings(n) == Permutations(1..n)

\* the orders in which set(stocks) may be iterated
IterationOrders(stocks) ==
    {[i \in 1..Len(stocks) |-> stocks[p[i]]] : p \in Reorderings(Len(stocks))}

BenchmarkSets == {<<>>, <<"SPY">>}

\* closing prices for AAA, BBB and SPY on three days: the daily returns are
\* (-0.1, +0.1, -0.1) and (+0.1, -0.2, +0.1)
FullRows ==
    <<<<Rat(100, 1), Rat(50, 1), Rat(200, 1)>>,
      <<Rat(90, 1), Rat(55, 1), Rat(180, 1)>>,
      <<Rat(99, 1), Rat(44, 1), Rat(198, 1)>>>>

\* what yf.download does for an interval
Downloads ==
    [full    |-> [raises |-> FALSE, columns |-> <<"AAA", "BBB", "SPY">>,
                  rows |-> FullRows],
     only_b  |-> [raises |-> FALSE, columns |-> <<"BBB", "SPY">>,
                  rows |-> [r \in 1..3 |-> Tail(FullRows[r])]],
     one_row |-> [raises |-> FALSE, columns |-> <<"AAA", "BBB", "SPY">>,
                  rows |-> <<FullRows[1]>>],
     gap     |-> [raises |-> FALSE, columns |-> <<"AAA", "BBB", "SPY">>,
                  rows |-> [r \in 1..3 |-> <<NaN>> \o Tail(FullRows[r])]],
     empty   |-> [raises |-> FALSE, columns |-> <<>>, rows |-> <<>>],
     error   |-> [raises |-> TRUE, columns |-> <<>>, rows |-> <<>>]]

\* a scenario's dates together with what the market holds for it
ScenarioCases ==
    {[start |-> "2020-02-19", end |-> "2020-03-23",
      market |-> [download |-> Downloads[k], fault |-> "none"]] :
        k \in DOMAIN Downloads}
    \cup
    {[start |-> "2020-02-19", end |-> "2020-03-23",
      market |-> [download |-> Downloads["full"], fault |-> "SPY"]]}
    \cup
    {[start |-> d[1], end |-> d[2],
      market |-> [download |-> Downloads["full"], fault |-> "none"]] :
        d \in {<<"2020-03-23", "2020-02-19">>, <<"2020-02-19", "2999-01-01">>,
               <<"19/02/2020", "2020-03-23">>}}

\* the texts given as dates: six that parse in one of the formats, one that
\* parses in none
DateTexts == DOMAIN Calendar \cup DOMAIN CalendarDayFirst \cup {"yesterday"}

DateFormats == {DateFormat, DayFirstFormat}

\* what yf.download may hold for an interval: the downloads above, and one
\* with a missing cell in its second row only
FetchDownloads ==
    {Downloads[k] : k \in DOMAIN Downloads}
    \cup {[raises |-> FALSE, columns |-> <<"AAA", "BBB", "SPY">>,
           rows |-> <<FullRows[1], <<NaN>> \o Tail(FullRows[2]), FullRows[3]>>]}

FetchNext ==
    \/ ValidateDateInterval
    \/ FetchPortfolioData

StressNext ==
    \/ RunStressTests
    \/ EvaluateScenario
    \/ ReturnStressResults

----------------------------------------------------------------------------
(* Specifications *)

\* the RiskMetrics class on its own: one construction, then assignments
InitRM ==
    /\ \E a \in FieldVals : rmCall = <<"call", a>>
    /\ rm = None
    /\ rmRaised = "none"
    /\ procCall = <<"idle">>
    /\ processor = None
    /\ procRaised = "none"
    /\ returned = None
    /\ factoryCall = <<"idle">>
    /\ engine = None
    /\ factoryRaised = "none"
    /\ np_random = 0
    /\ runCall = <<"idle">>
    /\ runRaised = "none"
    /\ raw_paths = <<>>
    /\ stressCall = <<"idle">>
    /\ scenario_index = 0
    /\ portfolio_results = <<>>
    /\ benchmark_results = <<>>
    /\ fetched = <<>>
    /\ stressRaised = "none"
    /\ fetchCall = <<"idle">>
    /\ fetchRaised = "none"
    /\ clean_data = None
    /\ downloads = 0

SpecRM == InitRM /\ [][RiskMetricsNext]_vars

\* the processor: construction and aggregation of a tensor, or the metrics
\* of a path matrix
InitProcessor ==
    /\ \/ \E tickers \in TickerLists :
          \E tensor \in Tensors(Len(tickers)), weights \in WeightVectors :
              procCall = <<"call", "__init__", tensor, tickers, weights>>
       \/ \E paths \in PathMatrices, c \in ConfidenceLevels :
              procCall = <<"call", "calculate_risk_metrics", paths, c>>
    /\ processor = None
    /\ procRaised = "none"
    /\ returned = None
    /\ rmCall = <<"idle">>
    /\ rm = None
    /\ rmRaised = "none"
    /\ factoryCall = <<"idle">>
    /\ engine = None
    /\ factoryRaised = "none"
    /\ np_random = 0
    /\ runCall = <<"idle">>
    /\ runRaised = "none"
    /\ raw_paths = <<>>
    /\ stressCall = <<"idle">>
    /\ scenario_index = 0
    /\ portfolio_results = <<>>
    /\ benchmark_results = <<>>
    /\ fetched = <<>>
    /\ stressRaised = "none"
    /\ fetchCall = <<"idle">>
    /\ fetchRaised = "none"
    /\ clean_data = None
    /\ downloads = 0

SpecProcessor == InitProcessor /\ [][ProcessorNext]_vars

\* the strategy registry: one lookup by name
InitFactory ==
    /\ \E t \in SimulationTypes, data \in PriceMatrices, config \in Configs :
           factoryCall = <<"call", t, data, config>>
    /\ engine = None
    /\ factoryRaised = "none"
    /\ rmCall = <<"idle">>
    /\ rm = None
    /\ rmRaised = "none"
    /\ procCall = <<"idle">>
    /\ processor = None
    /\ procRaised = "none"
    /\ returned = None
    /\ np_random = 0
    /\ runCall = <<"idle">>
    /\ runRaised = "none"
    /\ raw_paths = <<>>
    /\ stressCall = <<"idle">>
    /\ scenario_index = 0
    /\ portfolio_results = <<>>
    /\ benchmark_results = <<>>
    /\ fetched = <<>>
    /\ stressRaised = "none"
    /\ fetchCall = <<"idle">>
    /\ fetchRaised = "none"
    /\ clean_data = None
    /\ downloads = 0

SpecFactory == InitFactory /\ [][FactoryNext]_vars

\* the path generators: a simulator runs, and runs again in the same process
InitEngine ==
    /\ \E self \in Simulators, n \in 1..MaxRunSims, days \in 1..MaxDays :
           runCall = <<"call", self, n, days>>
    /\ np_random \in 0..MaxSeed
    /\ runRaised = "none"
    /\ raw_paths = <<>>
    /\ rmCall = <<"idle">>
    /\ rm = None
    /\ rmRaised = "none"
    /\ procCall = <<"idle">>
    /\ processor = None
    /\ procRaised = "none"
    /\ returned = None
    /\ factoryCall = <<"idle">>
    /\ engine = None
    /\ factoryRaised = "none"
    /\ stressCall = <<"idle">>
    /\ scenario_index = 0
    /\ portfolio_results = <<>>
    /\ benchmark_results = <<>>
    /\ fetched = <<>>
    /\ stressRaised = "none"
    /\ fetchCall = <<"idle">>
    /\ fetchRaised = "none"
    /\ clean_data = None
    /\ downloads = 0

SpecEngine == InitEngine /\ [][EngineNext]_vars

\* the stress tester: one call over a sequence of scenarios
InitStress ==
    /\ \E pw \in StressPortfolios, benchmarks \in BenchmarkSets,
          n \in 1..MaxScenarios :
       \E tickers \in IterationOrders(pw[1]), cases \in [1..n -> ScenarioCases] :
           stressCall =
               <<"call", pw[1], pw[2], tickers, benchmarks,
                 [i \in 1..n |-> [name  |-> ScenarioNames[i],
                                  start |-> cases[i].start,
                                  end   |-> cases[i].end]],
                 [i \in 1..n |-> cases[i].market]>>
    /\ scenario_index = 0
    /\ portfolio_results = <<>>
    /\ benchmark_results = <<>>
    /\ fetched = <<>>
    /\ stressRaised = "none"
    /\ fetchCall = <<"idle">>
    /\ fetchRaised = "none"
    /\ clean_data = None
    /\ downloads = 0
    /\ rmCall = <<"idle">>
    /\ rm = None
    /\ rmRaised = "none"
    /\ procCall = <<"idle">>
    /\ processor = None
    /\ procRaised = "none"
    /\ returned = None
    /\ factoryCall = <<"idle">>
    /\ engine = None
    /\ factoryRaised = "none"
    /\ np_random = 0
    /\ runCall = <<"idle">>
    /\ runRaised = "none"
    /\ raw_paths = <<>>

SpecStress == InitStress /\ [][StressNext]_vars

\* the date validation on its own, or a fetch of closing prices
InitFetch ==
    /\ \/ \E start_date \in DateTexts, end_date \in DateTexts,
             date_format \in DateFormats :
              fetchCall = <<"call", "validate_date_interval",
                            start_date, end_date, date_format>>
       \/ \E start_date \in DateTexts, end_date \in DateTexts,
             date_format \in DateFormats, download \in FetchDownloads :
              fetchCall = <<"call", "fetch_portfolio_data", <<"AAA", "BBB">>,
                            <<"SPY">>, start_date, end_date, date_format, download>>
    /\ fetchRaised = "none"
    /\ clean_data = None
    /\ downloads = 0
    /\ rmCall = <<"idle">>
    /\ rm = None
    /\ rmRaised = "none"
    /\ procCall = <<"idle">>
    /\ processor = None
    /\ procRaised = "none"
    /\ returned = None
    /\ factoryCall = <<"idle">>
    /\ engine = None
    /\ factoryRaised = "none"
    /\ np_random = 0
    /\ runCall = <<"idle">>
    /\ runRaised = "none"
    /\ raw_paths = <<>>
    /\ stressCall = <<"idle">>
    /\ scenario_index = 0
    /\ portfolio_results = <<>>
    /\ benchmark_results = <<>>
    /\ fetched = <<>>
    /\ stressRaised = "none"

SpecFetch == InitFetch /\ [][FetchNext]_vars

----------------------------------------------------------------------------
(* Claims about RiskMetrics, checked under SpecRM *)

Constructed == rmCall[1] = "RiskMetrics"

ReturnLikeFields ==
    {"expected_return", "median_return", "var_95", "cvar_95", "max_drawdown"}

\* the documented invariants of the value object, stated without the validators
WithinBounds(v) ==
    FLe(Rat(-RealisticBound, 1), v) /\ FLe(v, Rat(RealisticBound, 1))

DocumentedValid(a) ==
    /\ FLe(a["cvar_95"], a["var_95"])
    /\ FLe(a["max_drawdown"], Zero)
    /\ FGt(a["volatility"], Zero)
    /\ \A f \in ReturnLikeFields : WithinBounds(a[f])

\* C1: constructing a RiskMetrics with cvar_95 > var_95 raises a validation
\* error and yields no object, whatever the other fields are; with
\* cvar_95 <= var_95 and every other field valid the construction succeeds
\* and the object carries the given values.
C1_CvarAboveVarRejected ==
    Constructed =>
        LET a == rmCall[2] IN
        /\ FGt(a["cvar_95"], a["var_95"])
              => rmRaised = "ValidationError" /\ rm = None
        /\ DocumentedValid(a) => rmRaised = "none" /\ rm = <<a>>

\* the example of the documentation: cvar_95 = 0.1, var_95 = 0.05, the other
\* fields valid, and the constructor raised
C1_Witness ==
    /\ Constructed
    /\ rmCall[2]["cvar_95"] = Rat(1, 10)
    /\ rmCall[2]["var_95"] = Rat(1, 20)
    /\ FieldErrors(rmCall[2]) = {}
    /\ rmRaised = "ValidationError"

\* C2: constructing a RiskMetrics with max_drawdown > 0 or volatility <= 0
\* raises a validation error (volatility 0 is rejected, max_drawdown 0 is
\* accepted), so the constructor hands out no object with max_drawdown > 0
\* or volatility <= 0.
C2_DrawdownVolatilityRejected ==
    Constructed =>
        LET a == rmCall[2] IN
        /\ (FGt(a["max_drawdown"], Zero) \/ FLe(a["volatility"], Zero))
              => rmRaised = "ValidationError" /\ rm = None
        /\ rm # None
              => /\ FLe(rm[1]["max_drawdown"], Zero)
                 /\ FGt(rm[1]["volatility"], Zero)

\* volatility exactly 0 with every other field valid: rejected because of
\* the volatility alone
C2_Witness ==
    /\ Constructed
    /\ rmCall[2]["volatility"] = Zero
    /\ FieldErrors(rmCall[2]) = {"volatility"}
    /\ rmRaised = "ValidationError"

\* C3: constructing a RiskMetrics raises a validation error when any of the
\* five return-like fields has absolute value above 100, and every
\* constructed object has all five within [-100, 100].
C3_AllReturnFieldsBounded ==
    Constructed =>
        LET a == rmCall[2] IN
        /\ (\E f \in ReturnLikeFields : ~WithinBounds(a[f]))
              => rmRaised = "ValidationError" /\ rm = None
        /\ rm # None => \A f \in ReturnLikeFields : WithinBounds(rm[1][f])

\* C4: once constructed a RiskMetrics never changes: no step, assignment to
\* a field included, alters any of its six values.
C4_Immutable == [][rm # None => rm' = rm]_vars

----------------------------------------------------------------------------
(* Claims about simulator_factory, checked under SpecFactory *)

\* C7: simulator_factory succeeds exactly for the names monte_carlo,
\* bootstrap and jump_diffusion, returning an instance of the class
\* registered under the name; for any other name it raises the 'not found'
\* ValueError and returns no simulator.
C7_FactoryExactlyRegistered ==
    factoryCall[1] = "simulator_factory" =>
        LET t == factoryCall[2] IN
        /\ t = "monte_carlo" =>
              factoryRaised = "none" /\ engine # None
              /\ engine[1].class = "MonteCarloSimulator"
        /\ t = "bootstrap" =>
              factoryRaised = "none" /\ engine # None
              /\ engine[1].class = "BootstrapSimulator"
        /\ t = "jump_diffusion" =>
              factoryRaised = "none" /\ engine # None
              /\ engine[1].class = "JumpDiffusionSimulator"
        /\ t \notin {"monte_carlo", "bootstrap", "jump_diffusion"} =>
              factoryRaised = "ValueError" /\ engine = None

\* an unregistered, class-like name was asked for and refused
C7_Witness ==
    /\ factoryCall[1] = "simulator_factory"
    /\ factoryCall[2] = "geometric_brownian"
    /\ factoryRaised = "ValueError"
    /\ engine = None

----------------------------------------------------------------------------
(* Claims about PortfolioProcessor, checked under SpecProcessor *)

MetricsCalled ==
    procCall[1] \in {"calculate_risk_metrics", "processor.calculate_risk_metrics"}

\* C5: calculate_risk_metrics either raises a validation error or returns a
\* validated RiskMetrics object with cvar_95 <= var_95, max_drawdown <= 0
\* and volatility > 0; no calculator returns the six values unvalidated.
C5_NeverUnvalidated ==
    MetricsCalled =>
        \/ procRaised = "ValidationError" /\ returned = None
        \/ /\ procRaised = "none"
           /\ returned # None
           /\ returned[1].type = "RiskMetrics"
           /\ FLe(returned[1].v["cvar_95"], returned[1].v["var_95"])
           /\ FLe(returned[1].v["max_drawdown"], Zero)
           /\ FGt(returned[1].v["volatility"], Zero)

\* the final-day values of a path matrix are all the same
FinalValuesEqual(paths) ==
    \A s \in 1..Len(paths) : paths[s][Len(paths[s])] = paths[1][Len(paths[1])]

C8_CardinalityMismatch ==
    procCall[1] = "__init__" =>
        LET tickers == procCall[3]
            weights == procCall[4]
        IN  /\ Len(weights) # Len(tickers) =>
                  /\ procRaised = "ValueError"
                  /\ processor[1].weights = weights
                  /\ returned = None
            /\ Len(weights) = Len(tickers) => procRaised = "none"

\* three weights that do not sum to 1 for two tickers: refused, untouched
C8_Witness ==
    /\ procCall[1] = "__init__"
    /\ Len(procCall[3]) = 2
    /\ procCall[4] = <<Rat(2, 1), Rat(2, 1), Rat(2, 1)>>
    /\ procRaised = "ValueError"
    /\ processor[1].weights = procCall[4]

\* C9: for every weight vector of the right length the constructed
\* processor's weights sum to 1.0 within tolerance: a vector already summing
\* to 1 is kept, any other is divided by its sum.
C9_WeightsSumToOne ==
    (procCall[1] = "__init__" /\ Len(procCall[4]) = Len(procCall[3])) =>
        LET weights == procCall[4]
            total   == SeqSum(weights)
        IN  /\ procRaised = "none"
            /\ np_isclose(SeqSum(processor[1].weights), One)
            /\ total = One => processor[1].weights = weights
            /\ total # One =>
                  \A i \in 1..Len(weights) :
                      processor[1].weights[i] = FDiv(weights[i], total)

\* the weighted sum over the asset axis, asset by asset
RECURSIVE WeightedSum(_, _, _)
WeightedSum(row, w, a) ==
    IF a = 0 THEN Zero
    ELSE FAdd(WeightedSum(row, w, a - 1), FMul(row[a], w[a]))

\* C10: get_portfolio_paths returns a (simulations x days) matrix whose
\* entry (s, d) is the sum over the assets a of tensor[s][d][a] times the
\* processor's weight at position a, and the call changes neither the
\* tensor nor the weights.
C10_WeightedSumPerSimDay ==
    [][(procCall[1] = "__init__" /\ procCall'[1] = "get_portfolio_paths") =>
          LET self   == processor[1]
              tensor == self.sim_results
              out    == returned'[1].v
          IN  /\ processor' = processor
              /\ procRaised' = "none"
              /\ Len(out) = Len(tensor)
              /\ \A s \in 1..Len(tensor) :
                    /\ Len(out[s]) = Len(tensor[s])
                    /\ \A d \in 1..Len(tensor[s]) :
                          out[s][d] =
                              WeightedSum(tensor[s][d], self.weights,
                                          Len(self.tickers))]_vars

\* two simulations of two assets under the weights [2, 0.5], normalised to
\* [0.8, 0.2]: the two simulations aggregate to different paths
C10_Witness ==
    /\ procCall[1] = "get_portfolio_paths"
    /\ processor[1].weights = <<Rat(4, 5), Rat(1, 5)>>
    /\ returned[1].v = <<<<Rat(9, 5), Rat(6, 5)>>, <<Rat(6, 5), Rat(9, 5)>>>>

----------------------------------------------------------------------------
(* Claims about the values calculate_risk_metrics computes *)

\* a calculator ran and handed its values back
MetricsReturned == MetricsCalled /\ returned # None

\* the last-day value of simulation s, minus 1
FinalReturn(paths, s) == FSub(paths[s][Len(paths[s])], One)

\* the k-th smallest of the final returns, by counting
OrderStatistic(paths, k) ==
    LET S == 1..Len(paths)
    IN  CHOOSE x \in {FinalReturn(paths, s) : s \in S} :
            /\ Cardinality({s \in S : FLt(FinalReturn(paths, s), x)}) < k
            /\ Cardinality({s \in S : FLe(FinalReturn(paths, s), x)}) >= k

\* the q-quantile (q in [0, 1]) on the line through the two order
\* statistics around the position 1 + q * (n - 1)
Interpolated(paths, q) ==
    LET n   == Len(paths)
        pos == FMul(q, Rat(n - 1, 1))
        i   == pos.n \div pos.d
        lo  == OrderStatistic(paths, i + 1)
        hi  == OrderStatistic(paths, IF i + 1 < n THEN i + 2 ELSE n)
    IN  FAdd(lo, FMul(FSub(hi, lo), FSub(pos, Rat(i, 1))))

\* C12: the var_95 a calculator returns is the (1 - confidence_level)
\* quantile of the final returns (last-day value minus 1, one per
\* simulation) by linear interpolation between the two neighbouring order
\* statistics; it lies between the least and the greatest final return and
\* is the same for every reordering of the simulations.
C12_VarInterpolatedPercentile ==
    MetricsReturned =>
        LET paths == procCall[2]
            c     == procCall[3]
            n     == Len(paths)
            v     == returned[1].v["var_95"]
        IN  /\ v = Interpolated(paths, FSub(One, c))
            /\ FLe(OrderStatistic(paths, 1), v)
            /\ FLe(v, OrderStatistic(paths, n))
            /\ \A p \in Reorderings(n) :
                  var(final_returns([s \in 1..n |-> paths[p[s]]]), c) = v

\* final returns -0.5 and 1 at confidence 0.5: the VaR 0.25 lies strictly
\* between the two order statistics
C12_Witness ==
    /\ procCall[1] = "calculate_risk_metrics"
    /\ procCall[2] = <<<<Rat(1, 2)>>, <<Rat(2, 1)>>>>
    /\ procCall[3] = Rat(1, 2)
    /\ returned # None
    /\ returned[1].v["var_95"] = Rat(1, 4)

\* the sum of the final returns of the simulations in I
RECURSIVE TailSum(_, _)
TailSum(paths, I) ==
    IF I = {} THEN Zero
    ELSE LET s == CHOOSE t \in I : TRUE
         IN  FAdd(FinalReturn(paths, s), TailSum(paths, I \ {s}))

\* the sum of the magnitudes of the final returns of the simulations in I
RECURSIVE TailMagnitude(_, _)
TailMagnitude(paths, I) ==
    IF I = {} THEN Zero
    ELSE LET s == CHOOSE t \in I : TRUE
         IN  FAdd(FAbs(FinalReturn(paths, s)), TailMagnitude(paths, I \ {s}))

\* C13: the cvar_95 a calculator returns is the arithmetic mean of exactly
\* the final returns at or below the var_95 it returns, as float arithmetic
\* gives it: cvar_95 times their number is their sum, up to the rounding of
\* one addition per return and of the division (a relative 2^(1 - bits of
\* the significand) of the summed magnitudes each); when no final return
\* is at or below the var_95, cvar_95 is var_95 itself.
C13_CvarMeanOfTail ==
    MetricsReturned =>
        LET paths == procCall[2]
            v     == returned[1].v["var_95"]
            cv    == returned[1].v["cvar_95"]
            tail  == {s \in 1..Len(paths) : FLe(FinalReturn(paths, s), v)}
            k     == Cardinality(tail)
        IN  /\ tail # {} =>
                  FLe(FAbs(FSub(FMul(cv, Rat(k, 1)), TailSum(paths, tail))),
                      FMul(Rat(2 * k, Pow2(Significand)),
                           TailMagnitude(paths, tail)))
            /\ tail = {} => cv = v

\* final returns -0.5, 0 and 1 at confidence 0.5: the VaR is 0, and the
\* CVaR is the mean -0.25 of the two returns at or below it
C13_Witness ==
    /\ procCall[1] = "calculate_risk_metrics"
    /\ procCall[2] = <<<<Rat(1, 2)>>, <<One>>, <<Rat(2, 1)>>>>
    /\ procCall[3] = Rat(1, 2)
    /\ returned # None
    /\ returned[1].v["var_95"] = Zero
    /\ returned[1].v["cvar_95"] = Rat(-1, 4)

\* the greatest value of the path up to day d
Peak(path, d) ==
    CHOOSE x \in {path[e] : e \in 1..d} : \A e \in 1..d : FLe(path[e], x)

\* the drawdown of path s on day d
Drawdown(paths, s, d) ==
    FDiv(FSub(paths[s][d], Peak(paths[s], d)), Peak(paths[s], d))

PathDayPairs(paths) ==
    {<<s, d>> : s \in 1..Len(paths), d \in 1..Len(paths[1])}

Positive(paths) ==
    \A sd \in PathDayPairs(paths) : FGt(paths[sd[1]][sd[2]], Zero)

NonDecreasing(paths) ==
    \A sd \in PathDayPairs(paths) :
        sd[2] > 1 => FLe(paths[sd[1]][sd[2] - 1], paths[sd[1]][sd[2]])

\* C14: the max_drawdown a calculator returns is the least, over every path
\* and every day together, of (value - peak of the path so far) / peak: the
\* drawdown of one single (path, day), below or equal to every other (nan
\* when a peak is 0); for positive path values it is <= 0, and exactly 0
\* when every path is non-decreasing.
C14_MaxDrawdownWorstPathDay ==
    MetricsReturned =>
        LET paths == procCall[2]
            md    == returned[1].v["max_drawdown"]
            P     == PathDayPairs(paths)
        IN  /\ (\E sd \in P : IsNaN(Drawdown(paths, sd[1], sd[2]))) => IsNaN(md)
            /\ (\A sd \in P : ~IsNaN(Drawdown(paths, sd[1], sd[2]))) =>
                  /\ \E sd \in P : md = Drawdown(paths, sd[1], sd[2])
                  /\ \A sd \in P : FLe(md, Drawdown(paths, sd[1], sd[2]))
            /\ Positive(paths) => FLe(md, Zero)
            /\ (Positive(paths) /\ NonDecreasing(paths)) => md = Zero

\* one path halves and the other doubles: the worst single drawdown is
\* -0.5, where the mean of the two paths' worst drawdowns is -0.25
C14_Witness ==
    /\ procCall[1] = "calculate_risk_metrics"
    /\ procCall[2] = <<<<Rat(2, 1), One>>, <<One, Rat(2, 1)>>>>
    /\ returned # None
    /\ returned[1].v["max_drawdown"] = Rat(-1, 2)

----------------------------------------------------------------------------
(* Claims about the path generators, checked under SpecEngine *)

\* a run returned its tensor
RunReturned == runCall[1] = "run"

\* the tensor of the last run
LastTensor == raw_paths[Len(raw_paths)]

\* a growth factor that is positive and finite (e^x is, for a finite x)
PositiveGrowth(v) ==
    IF "exp" \in DOMAIN v THEN IsFinite(v.exp) ELSE IsFinite(v) /\ FGt(v, Zero)

\* the price window holds at least days + 1 observations
SufficientHistory == Len(runCall[2].data.rows) >= runCall[4] + 1

\* C11: for each of the three generators, a run with positive
\* n_simulations and days over a window of at least days + 1 observations
\* returns a tensor of shape (n_simulations, days, number of tickers) whose
\* every entry is a positive growth factor.
C11_ShapeAndPositiveGrowth ==
    (RunReturned /\ SufficientHistory) =>
        LET self   == runCall[2]
            tensor == LastTensor
        IN  /\ Len(tensor) = runCall[3]
            /\ \A s \in 1..Len(tensor) :
                  /\ Len(tensor[s]) = runCall[4]
                  /\ \A d \in 1..Len(tensor[s]) :
                        /\ Len(tensor[s][d]) = Len(self.tickers)
                        /\ \A a \in 1..Len(tensor[s][d]) :
                              PositiveGrowth(tensor[s][d][a])

\* C18: the Monte Carlo generator is reproducible: two runs of the same
\* simulator with identical inputs (data, config, n_simulations, days)
\* return identical tensors, whatever draws the process made before each
\* of them.  (run takes no seed; the only generator is numpy's global one.)
C18_RunsReproducible ==
    (runCall[2].class = "MonteCarloSimulator" /\ Len(raw_paths) = 2) =>
        raw_paths[2] = raw_paths[1]

\* the log-returns of the stock a simulator holds, when it holds just one
SingleAssetLogReturns(self) ==
    [r \in 1..(Len(self.data.rows) - 1) |->
        FSub(self.data.rows[r + 1][1].exp, self.data.rows[r][1].exp)]

\* one stock, two or more log-returns that are all the same, no jumps
Degenerate(self) ==
    /\ self.class \in {"MonteCarloSimulator", "JumpDiffusionSimulator"}
    /\ Len(self.tickers) = 1
    /\ LET lr == SingleAssetLogReturns(self)
       IN  Len(lr) >= 2 /\ \A r \in 1..Len(lr) : lr[r] = lr[1]
    /\ self.class = "JumpDiffusionSimulator" =>
          /\ "jump_lambda" \in DOMAIN self.config.simulation
          /\ self.config.simulation["jump_lambda"] = Zero

\* C19: on a single stock whose log-returns all equal mu, with zero jump
\* intensity, a run of the Monte Carlo or of the Jump-Diffusion generator
\* raises nothing and returns e^(mu * d) for every simulation and every day d.
C19_DegenerateDriftPath ==
    (runCall[1] \in {"run", "raised"} /\ Degenerate(runCall[2])) =>
        LET mu == SingleAssetLogReturns(runCall[2])[1]
        IN  /\ runRaised = "none"
            /\ \A s \in 1..runCall[3] : \A d \in 1..runCall[4] :
                  LastTensor[s][d][1] = np_exp(FMul(mu, Rat(d, 1)))

\* the historical return rows of the simulator's stocks: price over the
\* previous price, minus 1
HistoricalRows(self) ==
    [r \in 1..(Len(self.data.rows) - 1) |->
        [a \in 1..Len(self.tickers) |->
            LET col == IndexOf(self.data.columns, self.tickers[a])
            IN  FSub(FDiv(self.data.rows[r + 1][col], self.data.rows[r][col]), One)]]

\* the value of the path on the day before day d (1.0 before the first day)
PreviousValue(path, d, a) == IF d = 1 THEN One ELSE path[d - 1][a]

\* C20: in every path of the historical bootstrap, the growth step of each
\* day (value over the previous day's value, over 1.0 on the first day) is
\* 1 + r for one single historical return row r, the same row for all the
\* stocks; with one simulation of one day over the only row +0.01 the tensor
\* is the single path [1.01].
C20_BootstrapWholeRows ==
    (RunReturned /\ runCall[2].class = "GeometricBrownianSimulator") =>
        LET self   == runCall[2]
            rows   == HistoricalRows(self)
            tensor == LastTensor
        IN  /\ \A s \in 1..runCall[3] : \A d \in 1..runCall[4] :
                  \E r \in 1..Len(rows) : \A a \in 1..Len(self.tickers) :
                      FDiv(tensor[s][d][a], PreviousValue(tensor[s], d, a))
                          = FAdd(One, rows[r][a])
            /\ (rows = <<<<Rat(1, 100)>>>> /\ runCall[3] = 1 /\ runCall[4] = 1)
                  => tensor = <<<<<<Rat(101, 100)>>>>>>

\* two stocks over the rows (+0.1, -0.2) and (-0.1, +0.25): a two-day path
\* that took the first row twice
C20_Witness ==
    /\ RunReturned
    /\ runCall[2].class = "GeometricBrownianSimulator"
    /\ HistoricalRows(runCall[2]) =
           <<<<Rat(1, 10), Rat(-1, 5)>>, <<Rat(-1, 10), Rat(1, 4)>>>>
    /\ \E s \in 1..Len(LastTensor) :
           LastTensor[s] = <<<<Rat(11, 10), Rat(4, 5)>>,
                             <<Rat(121, 100), Rat(16, 25)>>>>

\* every value of the matrix is finite
FinitePaths(paths) ==
    \A sd \in PathDayPairs(paths) : IsFinite(paths[sd[1]][sd[2]])

\* C24: for a non-empty path matrix of finite values, some final return is
\* at or below the (1 - confidence_level) percentile of the final returns;
\* a calculator that returns has cvar_95 <= var_95; and when
\* calculate_risk_metrics raises, a field validator of RiskMetrics refuses
\* one of the six values, so that the cvar_95 > var_95 check is not what
\* raised.
C24_CvarNeverAboveVar ==
    (MetricsCalled /\ FinitePaths(procCall[2])) =>
        LET paths == procCall[2]
            c     == procCall[3]
            v     == Interpolated(paths, FSub(One, c))
        IN  /\ \E s \in 1..Len(paths) : FLe(FinalReturn(paths, s), v)
            /\ returned # None =>
                  FLe(returned[1].v["cvar_95"], returned[1].v["var_95"])
            /\ procRaised = "ValidationError" =>
                  FieldErrors(risk_values(paths, c)) # {}

\* the covariance matrix of the log-returns of the simulator's stocks
LogReturnCovariance(self) ==
    LET n  == Len(self.tickers)
        lr == [a \in 1..n |->
                  LET col == IndexOf(self.data.columns, self.tickers[a])
                  IN  [r \in 1..(Len(self.data.rows) - 1) |->
                          FSub(self.data.rows[r + 1][col].exp,
                               self.data.rows[r][col].exp)]]
    IN  [a \in 1..n |-> [b \in 1..n |-> covariance(lr[a], lr[b])]]

\* the matrix without its first row and its j-th column
Minor(m, j) ==
    [r \in 1..(Len(m) - 1) |->
        [c \in 1..(Len(m) - 1) |-> m[r + 1][IF c < j THEN c ELSE c + 1]]]

\* the determinant, expanded along the first row
RECURSIVE Det(_)
Det(m) ==
    IF Len(m) = 1 THEN m[1][1]
    ELSE SeqSum([j \in 1..Len(m) |->
            LET term == FMul(m[1][j], Det(Minor(m, j)))
            IN  IF j % 2 = 1 THEN term ELSE FNeg(term)])

\* Sylvester's criterion: every leading principal minor is positive
PositiveDefinite(m) ==
    \A k \in 1..Len(m) :
        FGt(Det([r \in 1..k |-> [c \in 1..k |-> m[r][c]]]), Zero)

\* C21: a run of the Monte Carlo generator over a window whose log-return
\* covariance is not positive-definite raises, and has returned no tensor.
C21_NonPositiveDefiniteRaises ==
    (/\ runCall[1] \in {"run", "raised"}
     /\ runCall[2].class = "MonteCarloSimulator"
     /\ ~PositiveDefinite(LogReturnCovariance(runCall[2])))
        => /\ runCall[1] = "raised"
           /\ runRaised # "none"
           /\ raw_paths = <<>>

\* C22: a run of a path generator for a horizon of days over a price window
\* of fewer than days + 1 observations raises, and has returned no tensor.
C22_InsufficientHistoryRaises ==
    (runCall[1] \in {"run", "raised"} /\ ~SufficientHistory)
        => /\ runCall[1] = "raised"
           /\ runRaised # "none"
           /\ raw_paths = <<>>

----------------------------------------------------------------------------
(* Claims about StressTester.run_stress_tests, checked under SpecStress *)

StressStarted == stressCall[1] \in {"running", "returned", "raised"}

StressReturned == stressCall[1] = "returned"

Scenarios == stressCall[6]

\* the complete rows the market holds for scenario i
CompleteRows(i) ==
    SelectSeq(stressCall[7][i].download.rows,
              LAMBDA row : \A c \in 1..Len(row) : ~IsNaN(row[c]))

WindowColumns(i) == Range(stressCall[7][i].download.columns)

\* the dates of scenario i parse, are in order and are not in the future
DatesValid(i) ==
    /\ Scenarios[i].start \in DOMAIN Calendar
    /\ Scenarios[i].end \in DOMAIN Calendar
    /\ Calendar[Scenarios[i].start] <= Calendar[Scenarios[i].end]
    /\ Calendar[Scenarios[i].end] <= Today

\* the fetch of scenario i raises: bad dates, a failed download, no
\* complete row
FetchRaises(i) ==
    \/ ~DatesValid(i)
    \/ stressCall[7][i].download.raises
    \/ CompleteRows(i) = <<>>

\* the window of scenario i holds no return row
WindowEmpty(i) == ~FetchRaises(i) /\ Len(CompleteRows(i)) < 2

\* the portfolio computation of scenario i raises: a ticker of the window
\* that zip(tickers, weights) left without a weight
PortfolioRaises(i) ==
    /\ ~FetchRaises(i) /\ ~WindowEmpty(i)
    /\ \E k \in 1..Len(stressCall[4]) :
          stressCall[4][k] \in WindowColumns(i) /\ k > Len(stressCall[3])

\* the computation of one of the benchmarks of scenario i raises
BenchmarkRaises(i) ==
    /\ ~FetchRaises(i) /\ ~WindowEmpty(i) /\ ~PortfolioRaises(i)
    /\ stressCall[7][i].fault \in Range(stressCall[5]) \cap WindowColumns(i)

ScenarioFails(i) == FetchRaises(i) \/ PortfolioRaises(i) \/ BenchmarkRaises(i)

\* C15: whatever scenarios yield no data or raise while they are fetched
\* or evaluated, no exception leaves run_stress_tests; when it returns,
\* every scenario of the sequence was evaluated, in order, and every
\* scenario that has data and does not fail has an entry in the portfolio
\* results.
C15_ScenarioIsolation ==
    StressStarted =>
        /\ stressRaised = "none"
        /\ stressCall[1] # "raised"
        /\ StressReturned =>
              /\ fetched = [i \in 1..Len(Scenarios) |-> Scenarios[i].name]
              /\ \A i \in 1..Len(Scenarios) :
                    (~WindowEmpty(i) /\ ~ScenarioFails(i)) =>
                        Scenarios[i].name \in DOMAIN portfolio_results

\* the download of the first scenario failed, and the second scenario is
\* the only one with a portfolio result
C15_Witness ==
    /\ StressReturned
    /\ Len(Scenarios) = 2
    /\ stressCall[7][1].download.raises
    /\ DOMAIN portfolio_results = {Scenarios[2].name}

\* C16: when run_stress_tests returns, a scenario whose evaluation raised
\* (in the fetch, in the portfolio computation or in a benchmark's
\* computation) or whose window was empty has no entry, complete or
\* partial, in the portfolio results or in the benchmark results.
C16_FailedScenarioExcluded ==
    StressReturned =>
        \A i \in 1..Len(Scenarios) :
            (ScenarioFails(i) \/ WindowEmpty(i)) =>
                /\ Scenarios[i].name \notin DOMAIN portfolio_results
                /\ Scenarios[i].name \notin DOMAIN benchmark_results

\* the weight the caller gave for ticker t: stocks[k] goes with weights[k]
CallerWeight(t) == stressCall[3][IndexOf(stressCall[2], t)]

\* the portfolio return of scenario i under the caller's pairing: every
\* present stock weighted by its own weight over the present weights' sum
ReweightedReturn(i) ==
    LET columns == stressCall[7][i].download.columns
        rows    == CompleteRows(i)
        present == SelectSeq(stressCall[2], LAMBDA t : t \in Range(columns))
        total   == SeqSum([k \in 1..Len(present) |-> CallerWeight(present[k])])
        daily(r) ==
            SeqSum([k \in 1..Len(present) |->
                LET c == IndexOf(columns, present[k])
                IN  FMul(FDiv(CallerWeight(present[k]), total),
                         FSub(FDiv(rows[r + 1][c], rows[r][c]), One))])
    IN  FSub(cumprod_last([r \in 1..(Len(rows) - 1) |-> daily(r)]), One)

\* C17: the portfolio return recorded for a scenario is the cumulative
\* product of (1 + weighted daily return) minus 1, where each stock
\* present in the window carries the weight the caller paired with it
\* divided by the sum of the present stocks' weights, whatever the order
\* in which the ticker collection is iterated.
C17_DynamicReweighting ==
    (StressStarted /\ Len(stressCall[3]) = Len(stressCall[2])) =>
        \A i \in 1..Len(Scenarios) :
            Scenarios[i].name \in DOMAIN portfolio_results =>
                portfolio_results[Scenarios[i].name] = ReweightedReturn(i)

----------------------------------------------------------------------------
(* Claims about validate_date_interval and fetch_portfolio_data, checked    *)
(* under SpecFetch                                                          *)

\* the text is a date written in the format
ParsesIn(text, date_format) ==
    \/ date_format = DateFormat /\ text \in DOMAIN Calendar
    \/ date_format = DayFirstFormat /\ text \in DOMAIN CalendarDayFirst

\* the day a text that parses stands for
DayOf(text, date_format) ==
    IF date_format = DateFormat THEN Calendar[text] ELSE CalendarDayFirst[text]

\* both dates parse, start is not after end, end is not in the future
IntervalValid(start_date, end_date, date_format) ==
    /\ ParsesIn(start_date, date_format)
    /\ ParsesIn(end_date, date_format)
    /\ DayOf(start_date, date_format) <= DayOf(end_date, date_format)
    /\ DayOf(end_date, date_format) <= Today

\* the rows of a download that have no missing cell
PopulatedRows(download) ==
    {r \in 1..Len(download.rows) :
        \A c \in 1..Len(download.rows[r]) : ~IsNaN(download.rows[r][c])}

\* C23: validate_date_interval raises exactly when a date does not parse in
\* the given format, start is after end, or end is in the future (an
\* interval of a single past day is accepted); fetch_portfolio_data calls
\* yf.download only for an interval that passed this validation, raises
\* ValueError and returns nothing when the download is empty or has no
\* fully populated row, and otherwise returns exactly the populated rows.
C23_DateValidationFailsFast ==
    /\ fetchCall[1] = "validate_date_interval" =>
          LET start_date  == fetchCall[2]
              end_date    == fetchCall[3]
              date_format == fetchCall[4]
          IN  /\ fetchRaised # "none"
                    <=> ~IntervalValid(start_date, end_date, date_format)
              /\ (/\ start_date = end_date
                  /\ ParsesIn(end_date, date_format)
                  /\ DayOf(end_date, date_format) <= Today)
                    => fetchRaised = "none"
    /\ fetchCall[1] = "fetch_portfolio_data" =>
          LET start_date  == fetchCall[4]
              end_date    == fetchCall[5]
              date_format == fetchCall[6]
              download    == fetchCall[7]
              valid       == IntervalValid(start_date, end_date, date_format)
              populated   == PopulatedRows(download)
          IN  /\ ~valid => fetchRaised # "none" /\ downloads = 0 /\ clean_data = None
              /\ valid => downloads = 1
              /\ (valid /\ ~download.raises /\ populated = {})
                    => fetchRaised = "ValueError" /\ clean_data = None
              /\ (valid /\ ~download.raises /\ populated # {})
                    => /\ fetchRaised = "none"
                       /\ Len(clean_data[1].rows) = Cardinality(populated)
                       /\ \A r \in populated :
                             \E k \in 1..Len(clean_data[1].rows) :
                                 clean_data[1].rows[k] = download.rows[r]

\* a fetch for an interval whose start is after its end raised before any
\* download
C23_Witness ==
    /\ fetchCall[1] = "fetch_portfolio_data"
    /\ fetchCall[4] = "2020-03-23" /\ fetchCall[5] = "2020-02-19"
    /\ fetchCall[6] = DateFormat
    /\ fetchRaised = "ValueError"
    /\ downloads = 0

====
